---------------------------- MODULE Spec2Model ----------------------------
(***************************************************************************)
(* The AltiVec/VSX complex packet kernel of Eigen/src/Core/arch/AltiVec/   *)
(* Complex.h: 128-bit registers as 16 bytes, the vector intrinsics the     *)
(* file uses, its shuffle patterns and sign masks as the file builds them, *)
(* and one action per packet operation.                                    *)
(*                                                                         *)
(* Conventions.  A register is a sequence of 16 bytes in element order     *)
(* (element 1 is the lowest address, as in a C vector initializer).        *)
(* vec_perm, vec_splat, vec_mergeh and vec_mergel number elements in that  *)
(* order in both builds; vec_sld works on the register image and so        *)
(* depends on the build.  The bytes of a scalar are listed most            *)
(* significant first; every pattern of the file moves whole 32-bit words,  *)
(* so the order inside a word is never observable.  Scalars are exact: a   *)
(* finite value is a sign and a reduced fraction, so that -0 and +0 are    *)
(* different bit patterns.                                                 *)
(***************************************************************************)
EXTENDS Integers, Sequences, FiniteSets, TLC

\* ------------------------------------------------------------- bounds
\* Largest magnitude of an input component.
MaxMag == 1

\* ------------------------------------------------------------- scalars
RECURSIVE GCD(_, _)
GCD(x, y) == IF y = 0 THEN x ELSE GCD(y, x % y)

RECURSIVE IsPow2(_)
IsPow2(n) == IF n = 1 THEN TRUE ELSE IF n % 2 = 1 \/ n = 0 THEN FALSE ELSE IsPow2(n \div 2)

XorBit(s, t) == IF s = t THEN 0 ELSE 1

\* F applied to the value of v (v is evaluated once).
With(v, F(_)) == CHOOSE y \in {F(u) : u \in {v}} : TRUE

\* A scalar (float or double) value.  k: "fin" (s = sign, n/d reduced),
\* "inf", "nan", "tiny" (a subnormal whose low word is the high word of n/d),
\* "junk" (bytes w that encode no value of the model).
Fin(s, n, d) ==
  LET g == GCD(n, d)
  IN  [k |-> "fin", s |-> s, n |-> n \div g, d |-> d \div g, w |-> <<>>]
Inf(s) == [k |-> "inf", s |-> s, n |-> 1, d |-> 0, w |-> <<>>]
NaN == [k |-> "nan", s |-> 0, n |-> 0, d |-> 0, w |-> <<>>]
Tiny(x) == [k |-> "tiny", s |-> x.s, n |-> x.n, d |-> x.d, w |-> <<>>]
Junk(bytes) == [k |-> "junk", s |-> 0, n |-> 0, d |-> 0, w |-> bytes]
PZero == Fin(0, 0, 1)
NZero == Fin(1, 0, 1)
FromInt(i) == IF i < 0 THEN Fin(1, -i, 1) ELSE Fin(0, i, 1)

IsZero(x) == x.k = "fin" /\ x.n = 0
Signed(x) == IF x.s = 1 THEN -x.n ELSE x.n
FNeg(x) == IF x.k \in {"fin", "inf"} THEN [x EXCEPT !.s = 1 - x.s] ELSE x
FAbs(x) == IF x.k \in {"fin", "inf"} THEN [x EXCEPT !.s = 0] ELSE x

\* IEEE-754 addition, exact on finite values (round to nearest never rounds
\* here); a subnormal added to a nonzero finite value is absorbed.
FAdd(x, y) ==
  IF x.k = "junk" \/ y.k = "junk" THEN Junk(<<>>)
  ELSE IF x.k = "nan" \/ y.k = "nan" THEN NaN
  ELSE IF x.k = "inf" /\ y.k = "inf" THEN (IF x.s = y.s THEN x ELSE NaN)
  ELSE IF x.k = "inf" THEN x
  ELSE IF y.k = "inf" THEN y
  ELSE IF x.k = "tiny" /\ y.k = "tiny" THEN Junk(<<>>)
  ELSE IF x.k = "tiny" THEN (IF IsZero(y) THEN x ELSE y)
  ELSE IF y.k = "tiny" THEN (IF IsZero(x) THEN y ELSE x)
  ELSE LET num == Signed(x) * y.d + Signed(y) * x.d
       IN  IF num = 0
           THEN Fin(IF IsZero(x) /\ IsZero(y) /\ x.s = 1 /\ y.s = 1 THEN 1 ELSE 0, 0, 1)
           ELSE Fin(IF num < 0 THEN 1 ELSE 0, IF num < 0 THEN -num ELSE num, x.d * y.d)

FSub(x, y) == FAdd(x, FNeg(y))

FMul(x, y) ==
  IF x.k = "junk" \/ y.k = "junk" THEN Junk(<<>>)
  ELSE IF x.k = "nan" \/ y.k = "nan" THEN NaN
  ELSE IF x.k = "tiny" \/ y.k = "tiny"
       THEN (IF IsZero(x) \/ IsZero(y) THEN Fin(XorBit(x.s, y.s), 0, 1) ELSE Junk(<<>>))
  ELSE IF x.k = "inf" \/ y.k = "inf"
       THEN (IF IsZero(x) \/ IsZero(y) THEN NaN ELSE Inf(XorBit(x.s, y.s)))
  ELSE Fin(XorBit(x.s, y.s), x.n * y.n, x.d * y.d)

FDiv(x, y) ==
  IF x.k = "junk" \/ y.k = "junk" THEN Junk(<<>>)
  ELSE IF x.k = "nan" \/ y.k = "nan" THEN NaN
  ELSE IF x.k = "tiny" \/ y.k = "tiny"
       THEN (IF IsZero(x) THEN Fin(XorBit(x.s, y.s), 0, 1) ELSE Junk(<<>>))
  ELSE IF x.k = "inf" THEN (IF y.k = "inf" THEN NaN ELSE Inf(XorBit(x.s, y.s)))
  ELSE IF y.k = "inf" THEN Fin(XorBit(x.s, y.s), 0, 1)
  ELSE IF y.n = 0 THEN (IF x.n = 0 THEN NaN ELSE Inf(XorBit(x.s, y.s)))
  ELSE Fin(XorBit(x.s, y.s), x.n * y.d, x.d * y.n)

\* Numeric equality of two scalars: the same real number (+0 = -0).
NumEq(x, y) ==
  /\ x.k = "fin"
  /\ y.k = "fin"
  /\ Signed(x) * y.d = Signed(y) * x.d

\* ------------------------------------------------------------- bytes
\* c: "num" (the byte num), "top" (most significant byte of scalar v, with its
\* sign bit), "low" (byte j of the scalar of magnitude v).  f = 1: bit 7 of
\* the byte is flipped.
Num(n) == [c |-> "num", num |-> n, v |-> NaN, j |-> 0, f |-> 0]
Byte00 == Num(0)
Byte80 == Num(128)
Top(x) == [c |-> "top", num |-> 0, v |-> x, j |-> 0, f |-> 0]
Low(x, j) == [c |-> "low", num |-> 0, v |-> FAbs(x), j |-> j, f |-> 0]

\* Whether the mantissa of x fits the high 32-bit word of a double.
Short(x) == x.k \in {"inf", "nan"} \/ (x.k = "fin" /\ IsPow2(x.d) /\ x.n < 1024)

\* The four most significant bytes of x.
ZeroWord == <<Byte00, Byte00, Byte00, Byte00>>
SignWord == <<Byte80, Byte00, Byte00, Byte00>>
HiWord(x) ==
  IF IsZero(x) THEN (IF x.s = 1 THEN SignWord ELSE ZeroWord)
  ELSE <<Top(x), Low(x, 1), Low(x, 2), Low(x, 3)>>

LoWord(x) ==
  IF IsZero(x) \/ Short(x) THEN ZeroWord
  ELSE <<Low(x, 4), Low(x, 5), Low(x, 6), Low(x, 7)>>

\* The 4 bytes of a float, the 8 bytes of a double.
\* A value that is no value of the model (the result of arithmetic on junk)
\* encodes to bytes that decode to junk again.
JunkByte == [c |-> "xor", num |-> 0, v |-> NaN, j |-> 0, f |-> 0]
EncF(x) ==
  IF x.k \in {"junk", "tiny"}
  THEN (IF Len(x.w) = 4 THEN x.w ELSE [i \in 1..4 |-> JunkByte])
  ELSE HiWord(x)
EncD(x) ==
  IF x.k = "junk" THEN (IF Len(x.w) = 8 THEN x.w ELSE [i \in 1..8 |-> JunkByte])
  ELSE IF x.k = "tiny" THEN ZeroWord \o HiWord(Fin(x.s, x.n, x.d))
  ELSE HiWord(x) \o LoWord(x)

\* The float in 4 bytes, the double in 8 bytes (first .. first + 7 of v).
DecF(b) ==
  IF b = ZeroWord THEN PZero
  ELSE IF b = SignWord THEN NZero
  ELSE IF b[1].c = "top" /\ b[1].f = 0 /\ b = HiWord(b[1].v) THEN b[1].v
  ELSE Junk(b)

DecD(b) ==
  LET hi == SubSeq(b, 1, 4)
      lo == SubSeq(b, 5, 8)
  IN  IF hi = ZeroWord /\ lo = ZeroWord THEN PZero
      ELSE IF hi = SignWord /\ lo = ZeroWord THEN NZero
      ELSE IF b[1].c = "top" /\ b[1].f = 0 /\ b = EncD(b[1].v) THEN b[1].v
      ELSE IF hi = ZeroWord /\ lo = SignWord THEN Tiny(NZero)
      ELSE IF hi = ZeroWord /\ lo[1].c = "top" /\ lo[1].f = 0 /\ lo = HiWord(lo[1].v)
           THEN Tiny(lo[1].v)
      ELSE Junk(b)

\* Bitwise XOR of two bytes, one of which is 0x00 or 0x80 (the masks of the
\* file hold no other byte).
Flip(x) ==
  IF x.c = "num" THEN Num(IF x.num >= 128 THEN x.num - 128 ELSE x.num + 128)
  ELSE IF x.c = "top" /\ x.f = 0 /\ x.v.k \in {"fin", "inf"} THEN Top(FNeg(x.v))
  ELSE [x EXCEPT !.f = 1 - x.f]
XorB(x, m) ==
  IF m = Byte00 THEN x
  ELSE IF x = Byte00 THEN m
  ELSE IF m = Byte80 THEN Flip(x)
  ELSE IF x = Byte80 THEN Flip(m)
  ELSE IF x = m THEN Byte00
  ELSE JunkByte


\* ------------------------------------------------------------- state
VARIABLES
  bigEndian,  \* the build: TRUE when _BIG_ENDIAN is defined
  op,         \* the operation that produced the results ("init": none yet)
  a, b,       \* input registers
  r,          \* result register
  sres,       \* result scalar of a reduction or pfirst: <<re, im>>
  aux,        \* an intermediate register of the operation (v2 of pmul, the divisor of pdiv)
  mem,        \* the array a gather reads or a scatter writes (complex scalars)
  stride,     \* the stride of the gather or scatter
  touched     \* the element indices the last gather read / scatter wrote

\* Two threads calling the kernel on disjoint arrays.
VARIABLES
  pc,         \* per thread: the statement the thread executes next
  heap,       \* the memory holding the arrays of both threads (complex scalars)
  afs,        \* the staging buffers af[2] of the running pgather / pscatter calls
  packet,     \* per thread: its packet register
  tstride,    \* per thread: the stride of its gather and scatter
  statics     \* the file's static masks and shuffle patterns (Complex.h:17-32)

threadVars == <<pc, heap, afs, packet, tstride, statics>>
\* No thread has started: the state of these variables outside the threaded runs.
ThreadsIdle ==
  /\ pc = <<>>
  /\ heap = <<>>
  /\ afs = <<>>
  /\ packet = <<>>
  /\ tstride = <<>>
  /\ statics = <<>>

\* An AlignedBox (Geometry/AlignedBox.h).
VARIABLES
  ambientDim, \* AmbientDimAtCompileTime: Dynamic or the fixed dimension
  m_min,      \* the minimal corner
  m_max,      \* the maximal corner
  extended,   \* the points extend(p) was called with since setNull
  boxop,      \* the last member function called
  barg,       \* its argument
  bres        \* its return value

boxVars == <<ambientDim, m_min, m_max, extended, boxop, barg, bres>>
\* No box has been constructed.
BoxIdle ==
  /\ ambientDim = 0
  /\ m_min = <<>>
  /\ m_max = <<>>
  /\ extended = {}
  /\ boxop = "none"
  /\ barg = <<>>
  /\ bres = 0

\* A MeanReducer<float> and the accumulators its caller holds
\* (Tensor/TensorFunctors.h).
VARIABLES
  scalarCount_,  \* MeanReducer::scalarCount_
  packetCount_,  \* MeanReducer::packetCount_
  saccum,        \* the scalar accumulator passed to reduce
  vaccum,        \* the packet accumulator passed to reducePacket (its lanes)
  reduced,       \* the calls made so far: [n, m, sum] (reduce calls, reducePacket calls, sum of all values)
  mop,           \* the last member function called
  mres           \* the value finalizeBoth returned

meanVars == <<scalarCount_, packetCount_, saccum, vaccum, reduced, mop, mres>>
\* No reducer has been constructed.
MeanIdle ==
  /\ scalarCount_ = 0
  /\ packetCount_ = 0
  /\ saccum = <<>>
  /\ vaccum = <<>>
  /\ reduced = <<>>
  /\ mop = "none"
  /\ mres = <<>>

\* Dynamic TensorStorage objects and the heap (Tensor/TensorStorage.h).
VARIABLES
  storages,   \* per object: [live, m_data, m_dimensions]; m_data is a buffer of the heap or 0 (null)
  buffers,    \* the buffers allocated so far: [cap, frees] (capacity, number of times freed)
  sop         \* the last member function called: [f, this, realloc]

storageVars == <<storages, buffers, sop>>
\* No storage has been constructed.
StorageIdle ==
  /\ storages = <<>>
  /\ buffers = <<>>
  /\ sop = <<>>

kernelVars == <<bigEndian, op, a, b, r, sres, aux, mem, stride, touched>>
extVars == <<threadVars, boxVars, meanVars, storageVars>>
ExtIdle == ThreadsIdle /\ BoxIdle /\ MeanIdle /\ StorageIdle
KernelIdle ==
  /\ bigEndian = TRUE
  /\ op = "init"
  /\ a = <<>>
  /\ b = <<>>
  /\ r = <<>>
  /\ sres = <<>>
  /\ aux = <<>>
  /\ mem = <<>>
  /\ stride = 0
  /\ touched = {}
notThreadVars == <<kernelVars, boxVars, meanVars, storageVars>>
notBoxVars == <<kernelVars, threadVars, meanVars, storageVars>>
notMeanVars == <<kernelVars, threadVars, boxVars, storageVars>>
notStorageVars == <<kernelVars, threadVars, boxVars, meanVars>>
vars == <<kernelVars, extVars>>

\* ------------------------------------------------------------- registers
Bytes(n) == [i \in 1..16 |-> Num(n)]
Mk4f(x) == With(x, LAMBDA u : EncF(u[1]) \o EncF(u[2]) \o EncF(u[3]) \o EncF(u[4]))
Mk2d(x) == With(x, LAMBDA u : EncD(u[1]) \o EncD(u[2]))
Lanes4f(v) ==
  With(v, LAMBDA u : <<DecF(SubSeq(u, 1, 4)), DecF(SubSeq(u, 5, 8)),
                       DecF(SubSeq(u, 9, 12)), DecF(SubSeq(u, 13, 16))>>)
Lanes2d(v) == With(v, LAMBDA u : <<DecD(SubSeq(u, 1, 8)), DecD(SubSeq(u, 9, 16))>>)

\* ------------------------------------------------------------- intrinsics
\* vec_perm: byte i of the result is byte p[i] (mod 32) of a followed by b.
vec_perm(x, y, p) ==
  With(x \o y, LAMBDA xy : [i \in 1..16 |-> xy[(p[i].num % 32) + 1]])
\* vec_sld shifts the register image of x followed by y (x the more
\* significant) left by n bytes and keeps the 16 most significant bytes.  It
\* is not endian-adjusted: in the big-endian build that is bytes n .. n+15 of
\* x \o y in element order; in the little-endian build element 1 is the least
\* significant end of the image, which gives bytes 16-n .. 31-n of y \o x.
vec_sld_image(x, y, n) == With(x \o y, LAMBDA xy : [i \in 1..16 |-> xy[i + n]])
vec_sld(x, y, n) ==
  IF bigEndian THEN vec_sld_image(x, y, n) ELSE vec_sld_image(y, x, 16 - n)
\* vec_splat on four 32-bit words: word k in every word.
vec_splat_4ui(x, k) ==
  With(x, LAMBDA u : [i \in 1..16 |-> u[4 * k + ((i - 1) % 4) + 1]])
\* vec_mergeh / vec_mergel on four 32-bit words: x0 y0 x1 y1 / x2 y2 x3 y3.
vec_mergeh_4ui(x, y) ==
  With(<<x, y>>, LAMBDA xy :
    [i \in 1..16 |->
       LET wi == (i - 1) \div 4
           src == 4 * (wi \div 2) + ((i - 1) % 4) + 1
       IN  IF wi % 2 = 0 THEN xy[1][src] ELSE xy[2][src]])
vec_mergel_4ui(x, y) ==
  With(<<x, y>>, LAMBDA xy :
    [i \in 1..16 |->
       LET wi == (i - 1) \div 4
           src == 8 + 4 * (wi \div 2) + ((i - 1) % 4) + 1
       IN  IF wi % 2 = 0 THEN xy[1][src] ELSE xy[2][src]])
\* Bitwise or in place of the exclusive or: a sign bit once set stays set.
vec_xor_as_or(x, y) ==
  With(<<x, y>>, LAMBDA xy :
    [i \in 1..16 |->
      IF xy[2][i] = Byte80
           /\ (\/ xy[1][i].c = "num" /\ xy[1][i].num >= 128
               \/ xy[1][i].c = "top" /\ xy[1][i].f = 0 /\ xy[1][i].v.k \in {"fin", "inf"}
                    /\ xy[1][i].v.s = 1
               \/ xy[1][i].f = 1)
      THEN xy[1][i]
      ELSE XorB(xy[1][i], xy[2][i])])
vec_xor(x, y) == With(<<x, y>>, LAMBDA xy : [i \in 1..16 |-> XorB(xy[1][i], xy[2][i])])

\* Lane-wise real arithmetic on four floats / two doubles.
Map4f(Op(_, _), x, y) ==
  With(<<Lanes4f(x), Lanes4f(y)>>, LAMBDA l : Mk4f([i \in 1..4 |-> Op(l[1][i], l[2][i])]))
Map2d(Op(_, _), x, y) ==
  With(<<Lanes2d(x), Lanes2d(y)>>, LAMBDA l : Mk2d([i \in 1..2 |-> Op(l[1][i], l[2][i])]))
vec_add_4f(x, y) == Map4f(FAdd, x, y)
vec_add_2d(x, y) == Map2d(FAdd, x, y)
vec_sub_4f(x, y) == Map4f(FSub, x, y)
vec_sub_2d(x, y) == Map2d(FSub, x, y)
\* vec_madd: x * y + z, one rounding (none here: the arithmetic is exact).
vec_madd_4f(x, y, z) == Map4f(FAdd, Map4f(FMul, x, y), z)
vec_madd_2d(x, y, z) == Map2d(FAdd, Map2d(FMul, x, y), z)
\* The real packet kernel's division and addition (PacketMath.h).
pdiv_Packet4f(x, y) == Map4f(FDiv, x, y)
pdiv_Packet2d(x, y) == Map2d(FDiv, x, y)
padd_Packet4f(x, y) == vec_add_4f(x, y)
padd_Packet2d(x, y) == vec_add_2d(x, y)

\* ------------------------------------------------------------- constants
\* Constants of PacketMath.h that Complex.h builds on.  Their values are the
\* ones the results documented on lines 18-29 of Complex.h require in the
\* big-endian build; lines 26 and 27 shift a register against itself, which
\* is the same in both builds, and fix p16uc_REVERSE and p16uc_FORWARD.
p16uc_FORWARD == [i \in 1..16 |-> Num(i - 1)]
p16uc_REVERSE == [i \in 1..16 |-> Num(4 * (3 - ((i - 1) \div 4)) + ((i - 1) % 4))]
p16uc_DUPLICATE == [i \in 1..16 |-> Num(4 * ((i - 1) \div 8) + ((i - 1) % 4))]
p4i_ZERO == Bytes(0)
p2l_ZERO == Bytes(0)
p4f_ZERO == Mk4f(<<PZero, PZero, PZero, PZero>>)
p4f_ZERO_ == Mk4f(<<NZero, NZero, NZero, NZero>>)
p2d_ZERO_ == Mk2d(<<NZero, NZero>>)

\* Complex.h:17-22.  The big-endian build has no p2ul_CONJ_XOR.
p4ui_CONJ_XOR_BE == vec_mergeh_4ui(p4i_ZERO, p4f_ZERO_)
p4ui_CONJ_XOR_LE == vec_mergeh_4ui(p4f_ZERO_, p4i_ZERO)
p4ui_CONJ_XOR == IF bigEndian THEN p4ui_CONJ_XOR_BE ELSE p4ui_CONJ_XOR_LE
\* The narrow mask with the operands of vec_sld exchanged.
p2ul_CONJ_XOR_exchanged == vec_sld(p2l_ZERO, p2d_ZERO_, 8)
p2ul_CONJ_XOR == vec_sld(p2d_ZERO_, p2l_ZERO, 8)

\* Complex.h:24-29.
p16uc_COMPLEX_RE ==
  vec_sld(vec_splat_4ui(p16uc_FORWARD, 0), vec_splat_4ui(p16uc_FORWARD, 2), 8)
p16uc_COMPLEX_IM == vec_sld(p16uc_DUPLICATE, vec_splat_4ui(p16uc_FORWARD, 3), 8)
p16uc_COMPLEX_REV == vec_sld(p16uc_REVERSE, p16uc_REVERSE, 8)
p16uc_COMPLEX_REV2 == vec_sld(p16uc_FORWARD, p16uc_FORWARD, 8)
p16uc_PSET_HI == vec_mergeh_4ui(p16uc_COMPLEX_RE, p16uc_COMPLEX_IM)
p16uc_PSET_LO == vec_mergel_4ui(p16uc_COMPLEX_RE, p16uc_COMPLEX_IM)

\* Complex.h:30-32.  A 32-bit integer lies in memory order in its word: most
\* significant byte first in the big-endian build, last in the little-endian
\* one.  vec_splat on sixteen bytes numbers them in element order.
IntWord(n) ==
  LET msb == <<Num((n \div 16777216) % 256), Num((n \div 65536) % 256),
               Num((n \div 256) % 256), Num(n % 256)>>
  IN  IF bigEndian THEN msb ELSE <<msb[4], msb[3], msb[2], msb[1]>>
WordInt(w) ==
  LET m == IF bigEndian THEN w ELSE <<w[4], w[3], w[2], w[1]>>
      top == IF m[1].num >= 128 THEN m[1].num - 256 ELSE m[1].num
  IN  ((top * 256 + m[2].num) * 256 + m[3].num) * 256 + m[4].num
p4i_MINUS16 == IntWord(-16) \o IntWord(-16) \o IntWord(-16) \o IntWord(-16)
vec_abs_4i(x) ==
  With(x, LAMBDA u :
    LET abs(k) == With(WordInt(SubSeq(u, 4 * k + 1, 4 * k + 4)),
                       LAMBDA n : IntWord(IF n < 0 THEN 0 - n ELSE n))
    IN  abs(0) \o abs(1) \o abs(2) \o abs(3))
vec_splat_16uc(x, k) == With(x, LAMBDA u : [i \in 1..16 |-> u[k + 1]])
vec_add_16uc(x, y) ==
  With(<<x, y>>, LAMBDA xy : [i \in 1..16 |-> Num((xy[1][i].num + xy[2][i].num) % 256)])
p16uc_COMPLEX_MASK16 ==
  vec_sld(p4i_ZERO, vec_splat_16uc(vec_abs_4i(p4i_MINUS16), 3), 8)
p16uc_COMPLEX_TRANSPOSE_0 == vec_add_16uc(p16uc_PSET_HI, p16uc_COMPLEX_MASK16)
p16uc_COMPLEX_TRANSPOSE_1 == vec_add_16uc(p16uc_PSET_LO, p16uc_COMPLEX_MASK16)


\* ------------------------------------------------------------- Packet2cf
\* A complex scalar is a pair <<re, im>>.  Complex lane k (0 or 1) of a wide
\* packet, and the packet holding two complex scalars.
Cplx2cf(v, k) == With(Lanes4f(v), LAMBDA l : <<l[2 * k + 1], l[2 * k + 2]>>)
Packet2cf(c0, c1) == Mk4f(<<c0[1], c0[2], c1[1], c1[2]>>)

\* pload / ploadu <Packet4f> of PacketMath.h: the 16 bytes at the address.
pload_Packet4f(bytes) == bytes
ploadu_Packet4f(bytes) == bytes

\* Complex.h:66-76.  bytes: the 16 bytes of memory that start at the scalar
\* (the scalar's 8 bytes, then whatever follows it).
pset1_Packet2cf(bytes, aligned) ==
  LET res == IF aligned THEN pload_Packet4f(bytes) ELSE ploadu_Packet4f(bytes)
  IN  vec_perm(res, res, p16uc_PSET_HI)

padd_Packet2cf(x, y) == vec_add_4f(x, y)
psub_Packet2cf(x, y) == vec_sub_4f(x, y)
pconj_Packet2cf(x) == vec_xor(x, p4ui_CONJ_XOR)

\* Complex.h:99-116.
pmul_Packet2cf(x, y) ==
  LET re == vec_perm(x, x, p16uc_COMPLEX_RE)
      im == vec_perm(x, x, p16uc_COMPLEX_IM)
      v1 == vec_madd_4f(re, y, p4f_ZERO)
      v2a == vec_madd_4f(im, y, p4f_ZERO)
      v2b == vec_xor(v2a, p4ui_CONJ_XOR)
  IN  vec_add_4f(v1, With(v2b, LAMBDA v2 : vec_perm(v2, v2, p16uc_COMPLEX_REV)))

\* Complex.h:136-142.
pfirst_Packet2cf(x) == Cplx2cf(x, 0)

\* Complex.h:151-157.
predux_Packet2cf(x) ==
  LET b1 == vec_sld(x, x, 8)
      b2 == padd_Packet4f(x, b1)
  IN  pfirst_Packet2cf(b2)

\* Complex.h:193-202: conj_helper<Packet2cf, Packet2cf, false, true>::pmul.
conj_helper_2cf_ft_pmul(x, y) == pmul_Packet2cf(x, pconj_Packet2cf(y))

\* Complex.h:226-232.
pdiv_Packet2cf_divisor(y) ==
  With(vec_madd_4f(y, y, p4f_ZERO),
       LAMBDA s : vec_add_4f(s, vec_perm(s, s, p16uc_COMPLEX_REV)))
pdiv_Packet2cf(x, y) ==
  pdiv_Packet4f(conj_helper_2cf_ft_pmul(x, y), pdiv_Packet2cf_divisor(y))

\* ------------------------------------------------------------- inputs
Signs == {0, 1}
FVals == {Fin(s, m, 1) : s \in Signs, m \in 0..MaxMag}
CVals == FVals \X FVals
\* The second complex lane of the wide inputs.
Lane1A == {<<FromInt(2), FromInt(-3)>>, <<NZero, FromInt(1)>>}
Lane1B == {<<FromInt(-2), FromInt(1)>>}
\* Components without -0.
IVals == {FromInt(i) : i \in -MaxMag..MaxMag}

NoScalar == <<PZero, PZero>>

InitWide ==
  /\ ExtIdle
  /\ bigEndian \in BOOLEAN
  /\ op = "init"
  /\ a \in {Packet2cf(c0, c1) : c0 \in CVals, c1 \in Lane1A}
  /\ b \in {Packet2cf(c0, c1) : c0 \in IVals \X IVals, c1 \in Lane1B}
  /\ r = Bytes(0)
  /\ sres = NoScalar
  /\ aux = Bytes(0)
  /\ mem = <<>>
  /\ stride = 0
  /\ touched = {}

\* Every operation runs once, on the inputs, and leaves its results in r / sres.
Pmul2cf ==
  /\ op = "init"
  /\ op' = "pmul_2cf"
  /\ r' = pmul_Packet2cf(a, b)
  /\ sres' = NoScalar
  /\ UNCHANGED <<bigEndian, a, b, aux, mem, stride, touched, extVars>>

\* pfirst(pmul(pset1(x), pset1(y))) for the scalars x, y at the start of the
\* 16-byte blocks a and b, on the aligned or the unaligned load path.
PmulPset1_2cf ==
  /\ op = "init"
  /\ op' = "pmul_pset1_2cf"
  /\ \E al \in BOOLEAN :
       r' = pmul_Packet2cf(pset1_Packet2cf(a, al), pset1_Packet2cf(b, al))
  /\ sres' = pfirst_Packet2cf(r')
  /\ UNCHANGED <<bigEndian, a, b, aux, mem, stride, touched, extVars>>

Pdiv2cf ==
  /\ op = "init"
  /\ op' = "pdiv_2cf"
  /\ r' = pdiv_Packet2cf(a, b)
  /\ aux' = pdiv_Packet2cf_divisor(b)
  /\ sres' = NoScalar
  /\ UNCHANGED <<bigEndian, a, b, mem, stride, touched, extVars>>

PdivPset1_2cf ==
  /\ op = "init"
  /\ op' = "pdiv_pset1_2cf"
  /\ \E al \in BOOLEAN :
       r' = pdiv_Packet2cf(pset1_Packet2cf(a, al), pset1_Packet2cf(b, al))
  /\ sres' = pfirst_Packet2cf(r')
  /\ UNCHANGED <<bigEndian, a, b, aux, mem, stride, touched, extVars>>

Pconj2cf ==
  /\ op = "init"
  /\ op' = "pconj_2cf"
  /\ r' = pconj_Packet2cf(a)
  /\ sres' = NoScalar
  /\ UNCHANGED <<bigEndian, a, b, aux, mem, stride, touched, extVars>>

Predux2cf ==
  /\ op = "init"
  /\ op' = "predux_2cf"
  /\ r' = Bytes(0)
  /\ sres' = predux_Packet2cf(a)
  /\ UNCHANGED <<bigEndian, a, b, aux, mem, stride, touched, extVars>>

NextWide ==
  \/ Pmul2cf
  \/ PmulPset1_2cf
  \/ Pdiv2cf
  \/ PdivPset1_2cf
  \/ Pconj2cf
  \/ Predux2cf

SpecWide == InitWide /\ [][NextWide]_vars

\* ------------------------------------------------------------- reference
\* The complex arithmetic the claims compare with, on scalars <<re, im>>.
CMul(x, y) ==
  <<FSub(FMul(x[1], y[1]), FMul(x[2], y[2])), FAdd(FMul(x[1], y[2]), FMul(x[2], y[1]))>>
CAdd(x, y) == <<FAdd(x[1], y[1]), FAdd(x[2], y[2])>>
CConj(x) == <<x[1], FNeg(x[2])>>
CNorm(x) == FAdd(FMul(x[1], x[1]), FMul(x[2], x[2]))
CDiv(x, y) ==
  LET num == CMul(x, CConj(y))
  IN  <<FDiv(num[1], CNorm(y)), FDiv(num[2], CNorm(y))>>
CNumEq(x, y) == NumEq(x[1], y[1]) /\ NumEq(x[2], y[2])


\* ------------------------------------------------------------- Packet1cd
\* The narrow packet exists in the little-endian build only (p2ul_CONJ_XOR
\* is defined under #else of _BIG_ENDIAN).  It holds one complex double:
\* 64-bit lane 1 is the real part, lane 2 the imaginary part.
Packet1cd(c) == Mk2d(<<c[1], c[2]>>)
Cplx1cd(v) == With(Lanes2d(v), LAMBDA l : <<l[1], l[2]>>)

pload_Packet2d(bytes) == bytes
ploadu_Packet2d(bytes) == bytes

\* Complex.h:284-294.  bytes: the 16 bytes of the scalar in memory.
pset1_Packet1cd(bytes, aligned) ==
  LET res == IF aligned THEN pload_Packet2d(bytes) ELSE ploadu_Packet2d(bytes)
  IN  vec_perm(res, res, p16uc_PSET_HI)

\* Complex.h:338-341.
ploaddup_Packet1cd(bytes, aligned) == pset1_Packet1cd(bytes, aligned)

padd_Packet1cd(x, y) == vec_add_2d(x, y)
pconj_Packet1cd(x) == vec_xor(x, p2ul_CONJ_XOR)

\* Complex.h:315-331.  pmul_Packet1cd_v2 is v2 after line 326, before the
\* swap of line 327 and the sign flip of line 328.
pmul_Packet1cd_v2(x, y) ==
  LET a_im == vec_perm(x, x, p16uc_PSET_HI)
  IN  vec_madd_2d(a_im, y, p2d_ZERO_)
pmul_Packet1cd(x, y) ==
  LET a_re == vec_perm(x, x, p16uc_PSET_HI)
      v1 == vec_madd_2d(a_re, y, p2d_ZERO_)
      v2 == With(pmul_Packet1cd_v2(x, y), LAMBDA v : vec_sld(v, v, 8))
  IN  vec_add_2d(v1, vec_xor(v2, p2ul_CONJ_XOR))

\* Complex.h:345-351.
pfirst_Packet1cd(x) == Cplx1cd(x)

\* Complex.h:360-366.
predux_Packet1cd(x) ==
  LET b1 == vec_sld(x, x, 8)
      b2 == padd_Packet2d(x, b1)
  IN  pfirst_Packet1cd(b2)

\* Complex.h:397-406: conj_helper<Packet1cd, Packet1cd, false, true>::pmul.
conj_helper_1cd_ft_pmul(x, y) == pmul_Packet1cd(x, pconj_Packet1cd(y))

\* Complex.h:430-436.
pdiv_Packet1cd_divisor(y) ==
  With(vec_madd_2d(y, y, p2d_ZERO_),
       LAMBDA s : vec_add_2d(s, vec_perm(s, s, p16uc_COMPLEX_REV)))
pdiv_Packet1cd(x, y) ==
  pdiv_Packet2d(conj_helper_1cd_ft_pmul(x, y), pdiv_Packet1cd_divisor(y))

InitNarrow ==
  /\ ExtIdle
  /\ bigEndian = FALSE
  /\ op = "init"
  /\ a \in {Packet1cd(c) : c \in CVals}
  /\ b \in {Packet1cd(c) : c \in CVals}
  /\ r = Bytes(0)
  /\ sres = NoScalar
  /\ aux = Bytes(0)
  /\ mem = <<>>
  /\ stride = 0
  /\ touched = {}

Pmul1cd ==
  /\ op = "init"
  /\ op' = "pmul_1cd"
  /\ r' = pmul_Packet1cd(a, b)
  /\ aux' = pmul_Packet1cd_v2(a, b)
  /\ sres' = pfirst_Packet1cd(r')
  /\ UNCHANGED <<bigEndian, a, b, mem, stride, touched, extVars>>

\* pset1 of the scalar stored in the 16 bytes a, on either load path.
Pset1_1cd ==
  /\ op = "init"
  /\ op' = "pset1_1cd"
  /\ \E al \in BOOLEAN : r' = pset1_Packet1cd(a, al)
  /\ sres' = pfirst_Packet1cd(r')
  /\ UNCHANGED <<bigEndian, a, b, aux, mem, stride, touched, extVars>>

Ploaddup1cd ==
  /\ op = "init"
  /\ op' = "ploaddup_1cd"
  /\ \E al \in BOOLEAN : r' = ploaddup_Packet1cd(a, al)
  /\ sres' = pfirst_Packet1cd(r')
  /\ UNCHANGED <<bigEndian, a, b, aux, mem, stride, touched, extVars>>

Pdiv1cd ==
  /\ op = "init"
  /\ op' = "pdiv_1cd"
  /\ r' = pdiv_Packet1cd(a, b)
  /\ aux' = pdiv_Packet1cd_divisor(b)
  /\ sres' = pfirst_Packet1cd(r')
  /\ UNCHANGED <<bigEndian, a, b, mem, stride, touched, extVars>>

Pconj1cd ==
  /\ op = "init"
  /\ op' = "pconj_1cd"
  /\ r' = pconj_Packet1cd(a)
  /\ sres' = pfirst_Packet1cd(r')
  /\ UNCHANGED <<bigEndian, a, b, aux, mem, stride, touched, extVars>>

Predux1cd ==
  /\ op = "init"
  /\ op' = "predux_1cd"
  /\ r' = Bytes(0)
  /\ sres' = predux_Packet1cd(a)
  /\ UNCHANGED <<bigEndian, a, b, aux, mem, stride, touched, extVars>>

NextNarrow ==
  \/ Pmul1cd
  \/ Pset1_1cd
  \/ Ploaddup1cd
  \/ Pdiv1cd
  \/ Pconj1cd
  \/ Predux1cd

SpecNarrow == InitNarrow /\ [][NextNarrow]_vars


\* ------------------------------------------------- gather and scatter
\* Memory is an array of complex elements indexed from the pointer the caller
\* passes; stride counts elements.  touched is the set of element indices the
\* call reads (gather) or writes (scatter).
MaxStride == 2
Strides == 1..MaxStride
MemIdx == 0..MaxStride
MemInit == [i \in MemIdx |-> <<FromInt(10 + 2 * i), FromInt(11 + 2 * i)>>]

\* A slot of the staging buffer af[] before anything is stored to it:
\* std::complex's default constructor gives (0, 0).
af_default == <<PZero, PZero>>

\* Complex.h:78-84.  af[0] = from[0*stride]; af[1] = from[1*stride]; vec_ld.
pgather_Packet2cf(from, st) ==
  LET af == <<from[0 * st], from[1 * st]>>
  IN  pload_Packet4f(Packet2cf(af[1], af[2]))
pgather_Packet2cf_reads(st) == {0 * st, 1 * st}

\* Complex.h:85-91.  vec_st to af, then to[0*stride] = af[0];
\* to[1*stride] = af[1].
pscatter_Packet2cf(to, from, st) ==
  LET af == <<Cplx2cf(from, 0), Cplx2cf(from, 1)>>
      t1 == [to EXCEPT ![0 * st] = af[1]]
  IN  [t1 EXCEPT ![1 * st] = af[2]]
pscatter_Packet2cf_writes(st) == {0 * st, 1 * st}

\* Complex.h:295-301.  af[0] = from[0*stride]; af[1] = from[1*stride];
\* pload<Packet1cd>(af) loads the 16 bytes of af[0].
pgather_Packet1cd(from, st) ==
  LET af == <<from[0 * st], from[1 * st]>>
  IN  pload_Packet2d(Packet1cd(af[1]))
pgather_Packet1cd_reads(st) == {0 * st, 1 * st}

\* Complex.h:302-308.  pstore<std::complex<double> >(af, from) fills the 16
\* bytes of af[0]; af[1] keeps its constructed value; then
\* to[0*stride] = af[0]; to[1*stride] = af[1].
pscatter_Packet1cd(to, from, st) ==
  LET af == <<Cplx1cd(from), af_default>>
      t1 == [to EXCEPT ![0 * st] = af[1]]
  IN  [t1 EXCEPT ![1 * st] = af[2]]
pscatter_Packet1cd_writes(st) == {0 * st, 1 * st}

InitMem ==
  /\ ExtIdle
  /\ bigEndian \in BOOLEAN
  /\ op = "init"
  /\ a \in {Packet2cf(c, l) : c \in CVals, l \in Lane1A}
  /\ b \in {Packet1cd(c) : c \in CVals}
  /\ r = Bytes(0)
  /\ sres = NoScalar
  /\ aux = Bytes(0)
  /\ mem = MemInit
  /\ stride \in Strides
  /\ touched = {}

Pgather2cf ==
  /\ op = "init"
  /\ op' = "pgather_2cf"
  /\ r' = pgather_Packet2cf(mem, stride)
  /\ touched' = pgather_Packet2cf_reads(stride)
  /\ UNCHANGED <<bigEndian, a, b, sres, aux, mem, stride, extVars>>

Pscatter2cf ==
  /\ op = "init"
  /\ op' = "pscatter_2cf"
  /\ mem' = pscatter_Packet2cf(mem, a, stride)
  /\ touched' = pscatter_Packet2cf_writes(stride)
  /\ UNCHANGED <<bigEndian, a, b, r, sres, aux, stride, extVars>>

\* Packet1cd exists in the little-endian (VSX) build only.
Pgather1cd ==
  /\ op = "init"
  /\ ~bigEndian
  /\ op' = "pgather_1cd"
  /\ r' = pgather_Packet1cd(mem, stride)
  /\ touched' = pgather_Packet1cd_reads(stride)
  /\ UNCHANGED <<bigEndian, a, b, sres, aux, mem, stride, extVars>>

Pscatter1cd ==
  /\ op = "init"
  /\ ~bigEndian
  /\ op' = "pscatter_1cd"
  /\ mem' = pscatter_Packet1cd(mem, b, stride)
  /\ touched' = pscatter_Packet1cd_writes(stride)
  /\ UNCHANGED <<bigEndian, a, b, r, sres, aux, stride, extVars>>

NextMem == Pgather2cf \/ Pscatter2cf \/ Pgather1cd \/ Pscatter1cd
SpecMem == InitMem /\ [][NextMem]_vars

\* ---------------------------------------- shuffles, helpers, reductions
\* Complex.h:171-179.
predux_mul_Packet2cf(x) ==
  LET b1 == vec_sld(x, x, 8)
  IN  pfirst_Packet2cf(pmul_Packet2cf(x, b1))

\* Complex.h:144-149 and 353-358.
preverse_Packet2cf(x) == vec_perm(x, x, p16uc_COMPLEX_REV2)
preverse_Packet1cd(x) == vec_perm(x, x, p16uc_COMPLEX_REV2)

\* Complex.h:234-237 and 438-441.
pcplxflip_Packet2cf(x) == vec_perm(x, x, p16uc_COMPLEX_REV)
pcplxflip_Packet1cd(x) == vec_perm(x, x, p16uc_COMPLEX_REV)

\* Complex.h:239-244.  kernel: <<packet[0], packet[1]>>; the result is the
\* kernel after the call.
ptranspose_Packet2cf(kernel) ==
  LET tmp == vec_perm(kernel[1], kernel[2], p16uc_COMPLEX_TRANSPOSE_0)
      p1 == vec_perm(kernel[1], kernel[2], p16uc_COMPLEX_TRANSPOSE_1)
  IN  <<tmp, p1>>

\* Complex.h:181-191 and 390-395.  The result is first after the call.
palign_impl_Packet2cf(Offset, first, second) ==
  IF Offset = 1 THEN vec_sld(first, second, 8) ELSE first
palign_impl_Packet1cd(Offset, first, second) == first

\* Complex.h:193-224.  cj = <<ConjLhs, ConjRhs>>.
conj_helper_2cf_pmul(cj, x, y) ==
  IF cj = <<FALSE, TRUE>> THEN pmul_Packet2cf(x, pconj_Packet2cf(y))
  ELSE IF cj = <<TRUE, FALSE>> THEN pmul_Packet2cf(pconj_Packet2cf(x), y)
  ELSE pconj_Packet2cf(pmul_Packet2cf(x, y))
conj_helper_2cf_pmadd(cj, x, y, c) ==
  padd_Packet2cf(conj_helper_2cf_pmul(cj, x, y), c)

\* Complex.h:159-169.  vecs: <<vecs[0], vecs[1]>>.
preduxp_Packet2cf(vecs) ==
  LET b1 == vec_sld(vecs[1], vecs[2], 8)
      b2 == With(vec_sld(vecs[2], vecs[1], 8), LAMBDA t : vec_sld(t, t, 8))
  IN  padd_Packet4f(b1, b2)

\* The packet operations above on operands a (first, packet[0], vecs[0]) and
\* b (second, packet[1], vecs[1]); mem holds two complex scalars in memory,
\* the addend c of pmadd and the operands of the narrow operations.
OpsA == {Packet2cf(c, l) : c \in CVals, l \in Lane1A}
OpsB == {Packet2cf(<<i, FromInt(1)>>, l) : i \in IVals, l \in Lane1B}
OpsMem ==
  { [i \in 0..1 |-> IF i = 0 THEN <<FromInt(3), FromInt(-1)>>
                             ELSE <<FromInt(-2), FromInt(5)>>],
    [i \in 0..1 |-> IF i = 0 THEN <<Fin(0, 1, 2), NZero>>
                             ELSE <<FromInt(1), FromInt(1)>>],
    [i \in 0..1 |-> IF i = 0 THEN <<NaN, Inf(0)>> ELSE <<NZero, Inf(1)>>] }
Offsets == {0, 1}
ConjFlags == {<<FALSE, TRUE>>, <<TRUE, FALSE>>, <<TRUE, TRUE>>}
ConjTag(cj) == IF cj = <<FALSE, TRUE>> THEN "ft" ELSE IF cj = <<TRUE, FALSE>> THEN "tf" ELSE "tt"
MemPacket2cf == Packet2cf(mem[0], mem[1])

InitOps ==
  /\ ExtIdle
  /\ bigEndian \in BOOLEAN
  /\ op = "init"
  /\ a \in OpsA
  /\ b \in OpsB
  /\ r = Bytes(0)
  /\ sres = NoScalar
  /\ aux = Bytes(0)
  /\ mem \in OpsMem
  /\ stride = 0
  /\ touched = {}

PreduxMul2cf ==
  /\ op = "init"
  /\ op' = "predux_mul_2cf"
  /\ sres' = predux_mul_Packet2cf(a)
  /\ UNCHANGED <<bigEndian, a, b, r, aux, mem, stride, touched, extVars>>

Preverse2cf ==
  /\ op = "init"
  /\ op' = "preverse_2cf"
  /\ r' = preverse_Packet2cf(a)
  /\ UNCHANGED <<bigEndian, a, b, sres, aux, mem, stride, touched, extVars>>

Preverse1cd ==
  /\ op = "init"
  /\ ~bigEndian
  /\ op' = "preverse_1cd"
  /\ r' = preverse_Packet1cd(pload_Packet2d(Packet1cd(mem[0])))
  /\ UNCHANGED <<bigEndian, a, b, sres, aux, mem, stride, touched, extVars>>

Pcplxflip2cf ==
  /\ op = "init"
  /\ op' = "pcplxflip_2cf"
  /\ r' = pcplxflip_Packet2cf(a)
  /\ UNCHANGED <<bigEndian, a, b, sres, aux, mem, stride, touched, extVars>>

Pcplxflip1cd ==
  /\ op = "init"
  /\ ~bigEndian
  /\ op' = "pcplxflip_1cd"
  /\ r' = pcplxflip_Packet1cd(pload_Packet2d(Packet1cd(mem[0])))
  /\ UNCHANGED <<bigEndian, a, b, sres, aux, mem, stride, touched, extVars>>

\* r and aux: packet[0] and packet[1] after the call.
Ptranspose2cf ==
  /\ op = "init"
  /\ op' = "ptranspose_2cf"
  /\ r' = ptranspose_Packet2cf(<<a, b>>)[1]
  /\ aux' = ptranspose_Packet2cf(<<a, b>>)[2]
  /\ UNCHANGED <<bigEndian, a, b, sres, mem, stride, touched, extVars>>

\* r: first after the call; second is a const reference.
Palign2cf ==
  /\ op = "init"
  /\ \E Offset \in Offsets :
       /\ op' = (IF Offset = 0 THEN "palign0_2cf" ELSE "palign1_2cf")
       /\ r' = palign_impl_Packet2cf(Offset, a, b)
  /\ UNCHANGED <<bigEndian, a, b, sres, aux, mem, stride, touched, extVars>>

Palign1cd ==
  /\ op = "init"
  /\ ~bigEndian
  /\ \E Offset \in Offsets :
       /\ op' = (IF Offset = 0 THEN "palign0_1cd" ELSE "palign1_1cd")
       /\ r' = palign_impl_Packet1cd(Offset, pload_Packet2d(Packet1cd(mem[0])),
                                     pload_Packet2d(Packet1cd(mem[1])))
  /\ UNCHANGED <<bigEndian, a, b, sres, aux, mem, stride, touched, extVars>>

ConjPmul2cf ==
  /\ op = "init"
  /\ \E cj \in ConjFlags :
       /\ op' = "conj_pmul_" \o ConjTag(cj)
       /\ r' = conj_helper_2cf_pmul(cj, a, b)
  /\ UNCHANGED <<bigEndian, a, b, sres, aux, mem, stride, touched, extVars>>

ConjPmadd2cf ==
  /\ op = "init"
  /\ \E cj \in ConjFlags :
       /\ op' = "conj_pmadd_" \o ConjTag(cj)
       /\ r' = conj_helper_2cf_pmadd(cj, a, b, pload_Packet4f(MemPacket2cf))
  /\ UNCHANGED <<bigEndian, a, b, sres, aux, mem, stride, touched, extVars>>

Preduxp2cf ==
  /\ op = "init"
  /\ op' = "preduxp_2cf"
  /\ r' = preduxp_Packet2cf(<<a, b>>)
  /\ UNCHANGED <<bigEndian, a, b, sres, aux, mem, stride, touched, extVars>>

\* pset1 of the same scalar (complex lane 0 of a) at two addresses: r from the
\* 16-byte-aligned one, where lane 1 of a follows the scalar in memory, aux
\* from the misaligned one, where lane 0 of b follows it.  The vector load
\* reads the 16 bytes that start at the scalar.
Pset1Paths2cf ==
  /\ op = "init"
  /\ op' = "pset1_paths_2cf"
  /\ r' = pset1_Packet2cf(a, TRUE)
  /\ aux' = pset1_Packet2cf(SubSeq(a, 1, 8) \o SubSeq(b, 1, 8), FALSE)
  /\ UNCHANGED <<bigEndian, a, b, sres, mem, stride, touched, extVars>>

\* pset1 of the scalar (complex lane 0 of a) in two memory states that agree
\* on the 8 bytes of the scalar: r with lane 1 of a in the 8 bytes behind it,
\* aux with lane 0 of b there; the same load path in both.
Pset1Memory2cf ==
  /\ op = "init"
  /\ \E aligned \in BOOLEAN :
       /\ r' = pset1_Packet2cf(a, aligned)
       /\ aux' = pset1_Packet2cf(SubSeq(a, 1, 8) \o SubSeq(b, 1, 8), aligned)
       /\ stride' = (IF aligned THEN 0 ELSE 1)
  /\ op' = "pset1_memory_2cf"
  /\ UNCHANGED <<bigEndian, a, b, sres, mem, touched, extVars>>

\* A complex<double> fills the 16 bytes that are loaded.
Pset1Paths1cd ==
  /\ op = "init"
  /\ ~bigEndian
  /\ op' = "pset1_paths_1cd"
  /\ r' = pset1_Packet1cd(Packet1cd(mem[0]), TRUE)
  /\ aux' = pset1_Packet1cd(Packet1cd(mem[0]), FALSE)
  /\ UNCHANGED <<bigEndian, a, b, sres, mem, stride, touched, extVars>>

\* aux: the packet x, r: pconj(pconj(x)); x ranges over packets of floating
\* point values (specials included) and over a packet of plain integer bytes.
PconjTwice2cf ==
  /\ op = "init"
  /\ \E x \in {a, MemPacket2cf, p16uc_COMPLEX_REV} :
       /\ aux' = x
       /\ r' = pconj_Packet2cf(pconj_Packet2cf(x))
  /\ op' = "pconj_twice_2cf"
  /\ UNCHANGED <<bigEndian, a, b, sres, mem, stride, touched, extVars>>

PconjTwice1cd ==
  /\ op = "init"
  /\ ~bigEndian
  /\ \E x \in {Packet1cd(mem[0]), Packet1cd(mem[1]), p16uc_COMPLEX_REV} :
       /\ aux' = x
       /\ r' = pconj_Packet1cd(pconj_Packet1cd(x))
  /\ op' = "pconj_twice_1cd"
  /\ UNCHANGED <<bigEndian, a, b, sres, mem, stride, touched, extVars>>

NextOps ==
  \/ PreduxMul2cf
  \/ Preverse2cf
  \/ Preverse1cd
  \/ Pcplxflip2cf
  \/ Pcplxflip1cd
  \/ Ptranspose2cf
  \/ Palign2cf
  \/ Palign1cd
  \/ ConjPmul2cf
  \/ ConjPmadd2cf
  \/ Preduxp2cf
  \/ Pset1Paths2cf
  \/ Pset1Memory2cf
  \/ Pset1Paths1cd
  \/ PconjTwice2cf
  \/ PconjTwice1cd

SpecOps == InitOps /\ [][NextOps]_vars

\* ------------------------------------------------------ load and store
\* Complex.h:123-132 and 279-282 forward to the real-scalar pload, ploadu,
\* pstore and pstoreu of PacketMath.h on the same address.  Memory is an array
\* of complex scalars, addressed by element; its first element is 16-byte
\* aligned, so a complex<float> at an even index and every complex<double>
\* is aligned.
MaxLen == 8
ArrElem(i) ==
  IF i % 4 = 0 THEN <<FromInt(i + 1), FromInt(-i)>>
  ELSE IF i % 4 = 1 THEN <<NaN, FromInt(i)>>
  ELSE IF i % 4 = 2 THEN <<NZero, FromInt(i)>>
  ELSE <<Inf(1), Fin(0, i, 2)>>
Arr(n) == [i \in 0..(n - 1) |-> ArrElem(i)]
ArrLen == Cardinality(DOMAIN mem)

\* The real-scalar stores: 16 bytes written at the address, nothing else.
pstore_float(m, o, v) ==
  [i \in DOMAIN m |-> IF i = o THEN Cplx2cf(v, 0)
                      ELSE IF i = o + 1 THEN Cplx2cf(v, 1) ELSE m[i]]
pstoreu_float(m, o, v) == pstore_float(m, o, v)
pstore_double(m, o, v) == [i \in DOMAIN m |-> IF i = o THEN Cplx1cd(v) ELSE m[i]]
pstoreu_double(m, o, v) == pstore_double(m, o, v)
pstore_float_writes(o) == {o, o + 1}
pstore_double_writes(o) == {o}

pload_Packet2cf(m, o) == pload_Packet4f(Packet2cf(m[o], m[o + 1]))
ploadu_Packet2cf(m, o) == ploadu_Packet4f(Packet2cf(m[o], m[o + 1]))
pstore_complex_float_next(m, o, from) == pstore_float(m, o + 1, from)
pstore_complex_float(m, o, from) == pstore_float(m, o, from)
pstoreu_complex_float(m, o, from) == pstoreu_float(m, o, from)
pload_Packet1cd(m, o) == pload_Packet2d(Packet1cd(m[o]))
ploadu_Packet1cd(m, o) == ploadu_Packet2d(Packet1cd(m[o]))
pstore_complex_double(m, o, from) == pstore_double(m, o, from)
pstoreu_complex_double(m, o, from) == pstoreu_double(m, o, from)

InitLoadStore ==
  /\ ExtIdle
  /\ bigEndian \in BOOLEAN
  /\ op = "init"
  /\ a = Bytes(0)
  /\ b = Bytes(0)
  /\ r = Bytes(0)
  /\ sres = NoScalar
  /\ aux = Bytes(0)
  /\ \E n \in 1..MaxLen : mem = Arr(n)
  /\ stride = 0
  /\ touched = {}

\* stride: the start offset, in elements, of the load and of the store.
Pload2cf ==
  /\ op = "init"
  /\ \E o \in DOMAIN mem :
       /\ o + 1 \in DOMAIN mem
       /\ o % 2 = 0
       /\ r' = pload_Packet2cf(mem, o)
       /\ stride' = o
  /\ op' = "pload_2cf"
  /\ UNCHANGED <<bigEndian, a, b, sres, aux, mem, touched, extVars>>

Ploadu2cf ==
  /\ op = "init"
  /\ \E o \in DOMAIN mem :
       /\ o + 1 \in DOMAIN mem
       /\ r' = ploadu_Packet2cf(mem, o)
       /\ stride' = o
  /\ op' = "ploadu_2cf"
  /\ UNCHANGED <<bigEndian, a, b, sres, aux, mem, touched, extVars>>

Pstore2cf ==
  /\ op = "pload_2cf"
  /\ mem' = pstore_complex_float(mem, stride, r)
  /\ touched' = pstore_float_writes(stride)
  /\ op' = "pstore_2cf"
  /\ UNCHANGED <<bigEndian, a, b, r, sres, aux, stride, extVars>>

Pstoreu2cf ==
  /\ op = "ploadu_2cf"
  /\ mem' = pstoreu_complex_float(mem, stride, r)
  /\ touched' = pstore_float_writes(stride)
  /\ op' = "pstoreu_2cf"
  /\ UNCHANGED <<bigEndian, a, b, r, sres, aux, stride, extVars>>

Pload1cd ==
  /\ op = "init"
  /\ ~bigEndian
  /\ \E o \in DOMAIN mem :
       /\ r' = pload_Packet1cd(mem, o)
       /\ stride' = o
  /\ op' = "pload_1cd"
  /\ UNCHANGED <<bigEndian, a, b, sres, aux, mem, touched, extVars>>

Ploadu1cd ==
  /\ op = "init"
  /\ ~bigEndian
  /\ \E o \in DOMAIN mem :
       /\ r' = ploadu_Packet1cd(mem, o)
       /\ stride' = o
  /\ op' = "ploadu_1cd"
  /\ UNCHANGED <<bigEndian, a, b, sres, aux, mem, touched, extVars>>

Pstore1cd ==
  /\ op = "pload_1cd"
  /\ mem' = pstore_complex_double(mem, stride, r)
  /\ touched' = pstore_double_writes(stride)
  /\ op' = "pstore_1cd"
  /\ UNCHANGED <<bigEndian, a, b, r, sres, aux, stride, extVars>>

Pstoreu1cd ==
  /\ op = "ploadu_1cd"
  /\ mem' = pstoreu_complex_double(mem, stride, r)
  /\ touched' = pstore_double_writes(stride)
  /\ op' = "pstoreu_1cd"
  /\ UNCHANGED <<bigEndian, a, b, r, sres, aux, stride, extVars>>

NextLoadStore ==
  \/ Pload2cf
  \/ Ploadu2cf
  \/ Pstore2cf
  \/ Pstoreu2cf
  \/ Pload1cd
  \/ Ploadu1cd
  \/ Pstore1cd
  \/ Pstoreu1cd

SpecLoadStore == InitLoadStore /\ [][NextLoadStore]_vars

\* ------------------------------------------------------------ threads
\* Two threads, each on its own array of the shared memory, each calling
\* pgather<Packet2cf>, pconj and pscatter<Packet2cf> (Complex.h:78-97), one
\* statement of the source per step.  af[2] is an automatic variable of the
\* call: every call has its own.  The masks and patterns of lines 17-32 are
\* statics every thread reads.
Threads == {1, 2}
Base(t) == (t - 1) * (MaxStride + 1)
HeapIdx == 0..(2 * (MaxStride + 1) - 1)
HeapInit == [j \in HeapIdx |-> <<FromInt(10 + 2 * j), FromInt(11 + 2 * j)>>]
\* The array of thread t inside the memory h.
Region(h, t) == [i \in MemIdx |-> h[Base(t) + i]]
StaticsInit ==
  [ p4ui_CONJ_XOR |-> p4ui_CONJ_XOR,
    p16uc_COMPLEX_RE |-> p16uc_COMPLEX_RE,
    p16uc_COMPLEX_IM |-> p16uc_COMPLEX_IM,
    p16uc_COMPLEX_REV |-> p16uc_COMPLEX_REV,
    p16uc_COMPLEX_REV2 |-> p16uc_COMPLEX_REV2,
    p16uc_PSET_HI |-> p16uc_PSET_HI,
    p16uc_PSET_LO |-> p16uc_PSET_LO,
    p16uc_COMPLEX_MASK16 |-> p16uc_COMPLEX_MASK16,
    p16uc_COMPLEX_TRANSPOSE_0 |-> p16uc_COMPLEX_TRANSPOSE_0,
    p16uc_COMPLEX_TRANSPOSE_1 |-> p16uc_COMPLEX_TRANSPOSE_1 ]
\* The staging buffer the call running in thread t uses.
af_of_one_static(t) == 1
af_of(t) == t

InitThreads ==
  /\ bigEndian \in BOOLEAN
  /\ op = "init"
  /\ a = Bytes(0)
  /\ b = Bytes(0)
  /\ r = Bytes(0)
  /\ sres = NoScalar
  /\ aux = Bytes(0)
  /\ mem = MemInit
  /\ stride = 0
  /\ touched = {}
  /\ pc = [t \in Threads |-> "pgather_af0"]
  /\ heap = HeapInit
  /\ afs = [t \in Threads |-> <<af_default, af_default>>]
  /\ packet = [t \in Threads |-> Bytes(0)]
  /\ tstride \in [Threads -> Strides]
  /\ statics = StaticsInit
  /\ BoxIdle
  /\ MeanIdle
  /\ StorageIdle

\* af[0] = from[0*stride];
GatherAf0(t) ==
  /\ pc[t] = "pgather_af0"
  /\ afs' = [afs EXCEPT ![af_of(t)][1] = heap[Base(t) + 0 * tstride[t]]]
  /\ pc' = [pc EXCEPT ![t] = "pgather_af1"]
  /\ UNCHANGED <<heap, packet, tstride, statics, notThreadVars>>

\* af[1] = from[1*stride];
GatherAf1(t) ==
  /\ pc[t] = "pgather_af1"
  /\ afs' = [afs EXCEPT ![af_of(t)][2] = heap[Base(t) + 1 * tstride[t]]]
  /\ pc' = [pc EXCEPT ![t] = "pgather_ld"]
  /\ UNCHANGED <<heap, packet, tstride, statics, notThreadVars>>

\* return Packet2cf(vec_ld(0, (const float*)af));
GatherLoad(t) ==
  /\ pc[t] = "pgather_ld"
  /\ packet' = [packet EXCEPT ![t] =
       pload_Packet4f(Packet2cf(afs[af_of(t)][1], afs[af_of(t)][2]))]
  /\ pc' = [pc EXCEPT ![t] = "pconj"]
  /\ UNCHANGED <<heap, afs, tstride, statics, notThreadVars>>

\* pconj: vec_xor with the static mask.
ThreadPconj(t) ==
  /\ pc[t] = "pconj"
  /\ packet' = [packet EXCEPT ![t] = vec_xor(packet[t], statics.p4ui_CONJ_XOR)]
  /\ pc' = [pc EXCEPT ![t] = "pscatter_st"]
  /\ UNCHANGED <<heap, afs, tstride, statics, notThreadVars>>

\* vec_st(from.v, 0, (float*)af);
ScatterStage(t) ==
  /\ pc[t] = "pscatter_st"
  /\ afs' = [afs EXCEPT ![af_of(t)] = <<Cplx2cf(packet[t], 0), Cplx2cf(packet[t], 1)>>]
  /\ pc' = [pc EXCEPT ![t] = "pscatter_to0"]
  /\ UNCHANGED <<heap, packet, tstride, statics, notThreadVars>>

\* to[0*stride] = af[0];
ScatterTo0(t) ==
  /\ pc[t] = "pscatter_to0"
  /\ heap' = [heap EXCEPT ![Base(t) + 0 * tstride[t]] = afs[af_of(t)][1]]
  /\ pc' = [pc EXCEPT ![t] = "pscatter_to1"]
  /\ UNCHANGED <<afs, packet, tstride, statics, notThreadVars>>

\* to[1*stride] = af[1];
ScatterTo1(t) ==
  /\ pc[t] = "pscatter_to1"
  /\ heap' = [heap EXCEPT ![Base(t) + 1 * tstride[t]] = afs[af_of(t)][2]]
  /\ pc' = [pc EXCEPT ![t] = "done"]
  /\ UNCHANGED <<afs, packet, tstride, statics, notThreadVars>>

NextThreads ==
  \E t \in Threads :
    \/ GatherAf0(t)
    \/ GatherAf1(t)
    \/ GatherLoad(t)
    \/ ThreadPconj(t)
    \/ ScatterStage(t)
    \/ ScatterTo0(t)
    \/ ScatterTo1(t)

SpecThreads == InitThreads /\ [][NextThreads]_vars

\* --------------------------------------------------------- AlignedBox
\* Geometry/AlignedBox.h with Scalar = int.  A vector is a sequence of
\* scalars; coefficient k of the source is element k + 1.
MaxDim == 2
MaxPoints == 2
Dynamic == 10000
Scalar_max == 2147483647
Coords == {-1, 0, 2}
Dims == 1..MaxDim
VectorType(d) == [1..d -> Coords]
Sq(x) == x * x
Min2(x, y) == IF x < y THEN x ELSE y
Max2(x, y) == IF x < y THEN y ELSE x
cwiseMin(u, v) == [k \in DOMAIN u |-> Min2(u[k], v[k])]
cwiseMax(u, v) == [k \in DOMAIN u |-> Max2(u[k], v[k])]
setConstant(d, x) == [k \in 1..d |-> x]

\* AlignedBox.h:67.
dim ==
  IF ambientDim = Dynamic THEN Len(m_min) - 1 ELSE ambientDim
\* AlignedBox.h:70.
isNull == \E k \in DOMAIN m_min : m_min[k] > m_max[k]
\* AlignedBox.h:91-92.
contains(p) ==
  /\ \A k \in DOMAIN m_min : m_min[k] <= p[k]
  /\ \A k \in DOMAIN m_min : p[k] <= m_max[k]
\* AlignedBox.h:96-97: extend(const VectorType& p).
extend_m_min(p) == cwiseMin(m_min, p)
extend_m_max_assigned(p) == p
extend_m_max(p) == cwiseMax(m_max, p)
\* AlignedBox.h:182-195: the loop over k = 0 .. dim() - 1.
RECURSIVE squaredExteriorDistance_loop(_, _, _)
squaredExteriorDistance_loop(p, k, dist2) ==
  IF ~(k < dim) THEN dist2
  ELSE IF p[k + 1] - m_min[k + 1] < 0
       THEN squaredExteriorDistance_loop(p, k + 1, dist2 + Sq(p[k + 1] - m_min[k + 1]))
  ELSE IF m_max[k + 1] - p[k + 1] < 0
       THEN squaredExteriorDistance_loop(p, k + 1, dist2 + Sq(m_max[k + 1] - p[k + 1]))
  ELSE squaredExteriorDistance_loop(p, k + 1, dist2)
squaredExteriorDistance(p) == squaredExteriorDistance_loop(p, 0, 0)

\* After construction: AlignedBox(int _dim) for a dynamic box, the default
\* constructor for a fixed-size one; both call setNull (lines 51-56, 73-77).
InitBox ==
  /\ KernelIdle
  /\ ThreadsIdle
  /\ MeanIdle
  /\ StorageIdle
  /\ \E d \in Dims :
       /\ ambientDim \in {Dynamic, d}
       /\ m_min = setConstant(d, Scalar_max)
       /\ m_max = setConstant(d, -Scalar_max)
  /\ extended = {}
  /\ boxop = "setNull"
  /\ barg = <<>>
  /\ bres = 0

BoxExtend ==
  /\ Cardinality(extended) < MaxPoints
  /\ \E p \in VectorType(Len(m_min)) :
       /\ m_min' = extend_m_min(p)
       /\ m_max' = extend_m_max(p)
       /\ extended' = extended \cup {p}
       /\ barg' = p
  /\ boxop' = "extend"
  /\ UNCHANGED <<ambientDim, bres, notBoxVars>>

BoxDim ==
  /\ boxop' = "dim"
  /\ bres' = dim
  /\ barg' = <<>>
  /\ UNCHANGED <<ambientDim, m_min, m_max, extended, notBoxVars>>

\* Called on boxes that hold a point: on a null box the int subtractions of
\* the loop overflow.
BoxSquaredExteriorDistance ==
  /\ ~isNull
  /\ \E p \in VectorType(Len(m_min)) :
       /\ barg' = p
       /\ bres' = squaredExteriorDistance(p)
  /\ boxop' = "squaredExteriorDistance"
  /\ UNCHANGED <<ambientDim, m_min, m_max, extended, notBoxVars>>

NextBox ==
  \/ BoxExtend
  \/ BoxDim
  \/ BoxSquaredExteriorDistance

SpecBox == InitBox /\ [][NextBox]_vars

\* -------------------------------------------------------- MeanReducer
\* Tensor/TensorFunctors.h:49-86 with T = float and a packet of
\* unpacket_traits_size lanes.  packet_traits is specialised for scalar
\* types (Complex.h:42, 254) and unpacket_traits for packet types
\* (Complex.h:64, 277); packet_traits<Packet> of line 80 names a packet type
\* and so selects the primary template, whose size is 1.
MaxCalls == 4
unpacket_traits_size == 2
packet_traits_size_primary == 1
ScalarArgs == {FromInt(1), FromInt(-2)}
PacketArgs == {<<FromInt(1), FromInt(2)>>, <<FromInt(0), FromInt(-3)>>, <<FromInt(2), FromInt(2)>>}
RECURSIVE predux_lanes(_, _)
predux_lanes(v, k) == IF k = 0 THEN PZero ELSE FAdd(predux_lanes(v, k - 1), v[k])
\* TensorFunctors.h:79-81.
finalizeBoth(sacc, vacc) ==
  FDiv(FAdd(sacc, predux_lanes(vacc, Len(vacc))),
       FromInt(scalarCount_ + packetCount_ * packet_traits_size_primary))

\* MeanReducer() (line 52); saccum = initialize(), vaccum = initializePacket()
\* (lines 64-70).
InitMean ==
  /\ KernelIdle
  /\ ThreadsIdle
  /\ BoxIdle
  /\ StorageIdle
  /\ scalarCount_ = 0
  /\ packetCount_ = 0
  /\ saccum = FromInt(0)
  /\ vaccum = [k \in 1..unpacket_traits_size |-> FromInt(0)]
  /\ reduced = [n |-> 0, m |-> 0, sum |-> FromInt(0)]
  /\ mop = "MeanReducer"
  /\ mres = <<>>

\* reduce(t, &saccum), lines 54-57.
MeanReduce ==
  /\ reduced.n + reduced.m < MaxCalls
  /\ \E t \in ScalarArgs :
       /\ saccum' = FAdd(saccum, t)
       /\ reduced' = [reduced EXCEPT !.n = @ + 1, !.sum = FAdd(@, t)]
  /\ scalarCount_' = scalarCount_ + 1
  /\ mop' = "reduce"
  /\ mres' = <<>>
  /\ UNCHANGED <<packetCount_, vaccum, notMeanVars>>

\* reducePacket(p, &vaccum), lines 58-62.
MeanReducePacket ==
  /\ reduced.n + reduced.m < MaxCalls
  /\ \E p \in PacketArgs :
       /\ vaccum' = [k \in DOMAIN vaccum |-> FAdd(vaccum[k], p[k])]
       /\ reduced' = [reduced EXCEPT !.m = @ + 1,
                                     !.sum = FAdd(@, predux_lanes(p, Len(p)))]
  /\ packetCount_' = packetCount_ + 1
  /\ mop' = "reducePacket"
  /\ mres' = <<>>
  /\ UNCHANGED <<scalarCount_, saccum, notMeanVars>>

\* finalizeBoth(saccum, vaccum), lines 78-81; const.
MeanFinalizeBoth ==
  /\ mop # "finalizeBoth"
  /\ mres' = finalizeBoth(saccum, vaccum)
  /\ mop' = "finalizeBoth"
  /\ UNCHANGED <<scalarCount_, packetCount_, saccum, vaccum, reduced, notMeanVars>>

NextMean ==
  \/ MeanReduce
  \/ MeanReducePacket
  \/ MeanFinalizeBoth

SpecMean == InitMean /\ [][NextMean]_vars

\* ------------------------------------------------------ TensorStorage
\* The pure dynamic TensorStorage of Tensor/TensorStorage.h:83-136 with
\* NumIndices_ = 2.  A buffer is named by its index in buffers; 0 is the null
\* pointer.  A request for zero elements is answered by the allocator with a
\* null pointer or with a block of no elements, as the platform chooses.
MaxBuffers == 4
Storages == {1, 2}
DimsArgs == {<<0, 2>>, <<2, 0>>, <<1, 2>>, <<2, 1>>, <<2, 2>>}
array_prod(d) == d[1] * d[2]
NoStorage == [live |-> FALSE, m_data |-> 0, m_dimensions |-> <<0, 0>>]
\* conditional_aligned_new_auto(size): the heap after the call and the pointer
\* returned.
new_auto_heap(bufs, size, nullForZero) ==
  IF size = 0 /\ nullForZero THEN bufs ELSE Append(bufs, [cap |-> size, frees |-> 0])
new_auto_ptr(bufs, size, nullForZero) ==
  IF size = 0 /\ nullForZero THEN 0 ELSE Len(bufs) + 1
\* conditional_aligned_delete_auto(ptr, size).
delete_auto(bufs, ptr) ==
  IF ptr = 0 THEN bufs ELSE [bufs EXCEPT ![ptr].frees = @ + 1]

\* TensorStorage(const Self_& other), lines 96-101.
copy_m_data(bufs, other, nullForZero) ==
  new_auto_ptr(bufs, array_prod(other.m_dimensions), nullForZero)
copy_heap(bufs, other, nullForZero) ==
  new_auto_heap(bufs, array_prod(other.m_dimensions), nullForZero)
copy_storage(bufs, other, nullForZero) ==
  [live |-> TRUE, m_data |-> copy_m_data(bufs, other, nullForZero),
   m_dimensions |-> other.m_dimensions]

InitStorage ==
  /\ KernelIdle
  /\ ThreadsIdle
  /\ BoxIdle
  /\ MeanIdle
  /\ storages = [s \in Storages |-> NoStorage]
  /\ buffers = <<>>
  /\ sop = [f |-> "none", this |-> 0, realloc |-> FALSE]

\* TensorStorage(DenseIndex size, const array& dimensions), lines 93-95, with
\* size = array_prod(dimensions).
StorageConstruct ==
  /\ Len(buffers) < MaxBuffers
  /\ \E s \in Storages, dimensions \in DimsArgs, nullForZero \in BOOLEAN :
       /\ ~storages[s].live
       /\ buffers' = new_auto_heap(buffers, array_prod(dimensions), nullForZero)
       /\ storages' = [storages EXCEPT ![s] =
            [live |-> TRUE,
             m_data |-> new_auto_ptr(buffers, array_prod(dimensions), nullForZero),
             m_dimensions |-> dimensions]]
       /\ sop' = [f |-> "TensorStorage", this |-> s, realloc |-> TRUE]
  /\ UNCHANGED notStorageVars

StorageCopyConstruct ==
  /\ Len(buffers) < MaxBuffers
  /\ \E s \in Storages, o \in Storages, nullForZero \in BOOLEAN :
       /\ ~storages[s].live
       /\ storages[o].live
       /\ buffers' = copy_heap(buffers, storages[o], nullForZero)
       /\ storages' = [storages EXCEPT ![s] = copy_storage(buffers, storages[o], nullForZero)]
       /\ sop' = [f |-> "TensorStorage(copy)", this |-> s, realloc |-> TRUE]
  /\ UNCHANGED notStorageVars

\* operator=, lines 102-109: nothing for this == &other; otherwise tmp(other),
\* swap(tmp), and tmp is destroyed with what *this held.
StorageAssign ==
  /\ Len(buffers) < MaxBuffers
  /\ \E s \in Storages, o \in Storages, nullForZero \in BOOLEAN :
       /\ storages[s].live
       /\ storages[o].live
       /\ IF s = o
          THEN UNCHANGED <<storages, buffers>>
          ELSE /\ storages' = [storages EXCEPT ![s] =
                    copy_storage(buffers, storages[o], nullForZero)]
               /\ buffers' = delete_auto(copy_heap(buffers, storages[o], nullForZero),
                                         storages[s].m_data)
       /\ sop' = [f |-> "operator=", this |-> s, realloc |-> s # o]
  /\ UNCHANGED notStorageVars

\* swap, lines 112-113.
StorageSwap ==
  /\ \E s \in Storages, o \in Storages :
       /\ storages[s].live
       /\ storages[o].live
       /\ storages' = [storages EXCEPT ![s] = storages[o], ![o] = storages[s]]
       /\ sop' = [f |-> "swap", this |-> s, realloc |-> FALSE]
  /\ UNCHANGED <<buffers, notStorageVars>>

\* resize(size, nbDimensions), lines 117-130, with size = array_prod(nbDimensions).
StorageResize ==
  /\ Len(buffers) < MaxBuffers
  /\ \E s \in Storages, nbDimensions \in DimsArgs :
       /\ storages[s].live
       /\ LET size == array_prod(nbDimensions)
              currentSz == array_prod(storages[s].m_dimensions)
              freed == delete_auto(buffers, storages[s].m_data)
          IN  IF size # currentSz
              THEN /\ buffers' = (IF size # 0 THEN new_auto_heap(freed, size, FALSE) ELSE freed)
                   /\ storages' = [storages EXCEPT ![s] =
                        [live |-> TRUE,
                         m_data |-> (IF size # 0 THEN new_auto_ptr(freed, size, FALSE) ELSE 0),
                         m_dimensions |-> nbDimensions]]
                   /\ sop' = [f |-> "resize", this |-> s, realloc |-> TRUE]
              ELSE /\ buffers' = buffers
                   /\ storages' = [storages EXCEPT ![s].m_dimensions = nbDimensions]
                   /\ sop' = [f |-> "resize", this |-> s, realloc |-> FALSE]
  /\ UNCHANGED notStorageVars

\* ~TensorStorage, line 111.
StorageDestroy ==
  /\ \E s \in Storages :
       /\ storages[s].live
       /\ buffers' = delete_auto(buffers, storages[s].m_data)
       /\ storages' = [storages EXCEPT ![s] = NoStorage]
       /\ sop' = [f |-> "~TensorStorage", this |-> s, realloc |-> FALSE]
  /\ UNCHANGED notStorageVars

NextStorage ==
  \/ StorageConstruct
  \/ StorageCopyConstruct
  \/ StorageAssign
  \/ StorageSwap
  \/ StorageResize
  \/ StorageDestroy

SpecStorage == InitStorage /\ [][NextStorage]_vars

\* ------------------------------------------------------------- claims
\* The complex inputs of the operation: lane k of the wide packets, and the
\* narrow packets.
A2cf(k) == Cplx2cf(a, k)
B2cf(k) == Cplx2cf(b, k)
A1cd == Cplx1cd(a)
B1cd == Cplx1cd(b)
Lanes01 == {0, 1}

\* C1: wide multiply.  After pmul<Packet2cf>(a, b) each complex lane k of the
\* result is the complex product a_k * b_k, and pfirst(pmul(pset1(x), pset1(y)))
\* is the scalar product x * y.
C1_WideMultiply ==
  /\ op = "pmul_2cf" => \A k \in Lanes01 : CNumEq(Cplx2cf(r, k), CMul(A2cf(k), B2cf(k)))
  /\ op = "pmul_pset1_2cf" => CNumEq(sres, CMul(A2cf(0), B2cf(0)))

\* C1 in the big-endian build alone, where the sign mask is the one of line 18.
C1_WideMultiply_BigEndian == bigEndian => C1_WideMultiply

\* C2: narrow multiply.  After pmul<Packet1cd>(a, b) the result is the complex
\* product a * b, and the intermediate v2 is (ai * br, ai * bi).
C2_NarrowMultiply ==
  op = "pmul_1cd" =>
    /\ CNumEq(Cplx1cd(r), CMul(A1cd, B1cd))
    /\ CNumEq(Cplx1cd(aux), <<FMul(A1cd[2], B1cd[1]), FMul(A1cd[2], B1cd[2])>>)

\* C3: narrow broadcast.  pset1<Packet1cd> and ploaddup<Packet1cd> of the
\* scalar (re, im) give the packet [re, im], and pfirst of it is the scalar.
C3_NarrowBroadcast ==
  op \in {"pset1_1cd", "ploaddup_1cd"} => Cplx1cd(r) = A1cd /\ sres = A1cd

\* C4: wide divide.  After pdiv<Packet2cf>(a, b), in every complex lane k with
\* s = |b_k|^2 nonzero, both real lanes of the divisor hold s and the result
\* is a_k * conj(b_k) / s; pfirst(pdiv(pset1(x), pset1(y))) is x / y.
C4_WideDivide ==
  /\ op = "pdiv_2cf" =>
       \A k \in Lanes01 :
         ~IsZero(CNorm(B2cf(k))) =>
           /\ CNumEq(Cplx2cf(aux, k), <<CNorm(B2cf(k)), CNorm(B2cf(k))>>)
           /\ CNumEq(Cplx2cf(r, k), CDiv(A2cf(k), B2cf(k)))
  /\ op = "pdiv_pset1_2cf" =>
       (~IsZero(CNorm(B2cf(0))) => CNumEq(sres, CDiv(A2cf(0), B2cf(0))))

\* C4 in the big-endian build alone.
C4_WideDivide_BigEndian == bigEndian => C4_WideDivide

\* C5: narrow divide.  After pdiv<Packet1cd>(a, b) with s = br^2 + bi^2 nonzero
\* the divisor vector holds s in both 64-bit lanes and the result is
\* a * conj(b) divided componentwise by s.
C5_NarrowDivide ==
  (op = "pdiv_1cd" /\ ~IsZero(CNorm(B1cd))) =>
    /\ CNumEq(Cplx1cd(aux), <<CNorm(B1cd), CNorm(B1cd)>>)
    /\ CNumEq(Cplx1cd(r), CDiv(A1cd, B1cd))

\* C6: wide conjugate and its mask.  In either build p4ui_CONJ_XOR has the sign
\* bit in exactly the imaginary 32-bit lanes, the two builders give the same
\* mask, and pconj<Packet2cf> negates im0 and im1 and leaves re0 and re1
\* bit-identical.
ImagSignMask4 == ZeroWord \o SignWord \o ZeroWord \o SignWord
C6_WideConjugate ==
  /\ p4ui_CONJ_XOR = ImagSignMask4
  /\ p4ui_CONJ_XOR_BE = p4ui_CONJ_XOR_LE
  /\ op = "pconj_2cf" =>
       \A k \in Lanes01 : Cplx2cf(r, k) = <<A2cf(k)[1], FNeg(A2cf(k)[2])>>

C10_ReduceSum ==
  /\ op = "predux_2cf" => CNumEq(sres, CAdd(A2cf(0), A2cf(1)))
  /\ op = "predux_1cd" => sres = A1cd

\* The wide half of C10, which holds in both builds.
C10_ReduceSum_Wide == op = "predux_2cf" => sres = CAdd(A2cf(0), A2cf(1))

\* The element indices a call on a packet of count lanes may touch.
Span(count) == {i * stride : i \in 0..(count - 1)}

\* C8: gather span.  pgather reads only from[i*stride] for i below the lane
\* count (2 for Packet2cf, 1 for Packet1cd), and result lane i is
\* from[i*stride].
C8_GatherSpan ==
  /\ op = "pgather_2cf" =>
       /\ touched \subseteq Span(2)
       /\ \A k \in Lanes01 : Cplx2cf(r, k) = MemInit[k * stride]
  /\ op = "pgather_1cd" =>
       /\ touched \subseteq Span(1)
       /\ Cplx1cd(r) = MemInit[0]

\* The Packet2cf half of C8.
C8_GatherSpan_Wide ==
  op = "pgather_2cf" =>
    /\ touched \subseteq Span(2)
    /\ \A k \in Lanes01 : Cplx2cf(r, k) = MemInit[k * stride]

\* C9: scatter frame.  pscatter sets to[i*stride] to lane i of the packet for
\* i below the lane count, every written value is a lane of the packet, and
\* every other element of the destination keeps its value.
C9_ScatterFrame ==
  /\ op = "pscatter_2cf" =>
       /\ touched \subseteq Span(2)
       /\ \A k \in Lanes01 : mem[k * stride] = A2cf(k)
       /\ \A j \in MemIdx \ Span(2) : mem[j] = MemInit[j]
  /\ op = "pscatter_1cd" =>
       /\ touched \subseteq Span(1)
       /\ mem[0] = B1cd
       /\ \A j \in MemIdx \ Span(1) : mem[j] = MemInit[j]

\* The Packet2cf half of C9.
C9_ScatterFrame_Wide ==
  op = "pscatter_2cf" =>
    /\ touched \subseteq Span(2)
    /\ \A k \in Lanes01 : mem[k * stride] = A2cf(k)
    /\ \A j \in MemIdx \ Span(2) : mem[j] = MemInit[j]



\* C11: predux_mul<Packet2cf> of the packet [a, b] returns the complex product
\* a*b of its two lanes.
C11_ReduceProduct ==
  op = "predux_mul_2cf" => CNumEq(sres, CMul(A2cf(0), A2cf(1)))
\* The same in the big-endian build alone.
C11_ReduceProduct_BigEndian == bigEndian => C11_ReduceProduct

\* C12: preverse<Packet2cf>([c0, c1]) returns [c1, c0] with (re, im) kept in
\* each lane; preverse<Packet1cd>(p) returns p unchanged.
C12_Reverse ==
  /\ op = "preverse_2cf" => r = SubSeq(a, 9, 16) \o SubSeq(a, 1, 8)
  /\ op = "preverse_1cd" => r = Packet1cd(mem[0])
\* The wide half alone, in both builds.
C12_Reverse_Wide == op = "preverse_2cf" => C12_Reverse

\* C13: pcplxflip exchanges the real and the imaginary part inside each
\* complex lane, whole scalars bit-identical, nothing crossing a lane:
\* [re0, im0, re1, im1] becomes [im0, re0, im1, re1] and [re, im] becomes
\* [im, re].
C13_FlipComponents ==
  /\ op = "pcplxflip_2cf" =>
       r = SubSeq(a, 5, 8) \o SubSeq(a, 1, 4) \o SubSeq(a, 13, 16) \o SubSeq(a, 9, 12)
  /\ op = "pcplxflip_1cd" =>
       r = SubSeq(Packet1cd(mem[0]), 9, 16) \o SubSeq(Packet1cd(mem[0]), 1, 8)
\* The wide half alone, in both builds.
C13_FlipComponents_Wide == op = "pcplxflip_2cf" => C13_FlipComponents

\* C14: ptranspose on packet0 = [a, b], packet1 = [c, d] leaves
\* packet0 = [a, c] and packet1 = [b, d], both taken from the original
\* inputs, (re, im) kept in each complex value.
C14_Transpose ==
  op = "ptranspose_2cf" =>
    /\ r = SubSeq(a, 1, 8) \o SubSeq(b, 1, 8)
    /\ aux = SubSeq(a, 9, 16) \o SubSeq(b, 9, 16)
\* The same in the big-endian build alone.
C14_Transpose_BigEndian == bigEndian => C14_Transpose

\* C15: palign_impl<0,Packet2cf>::run leaves first = [a, b] unchanged,
\* palign_impl<1,Packet2cf>::run sets first to [b, c] where second = [c, d],
\* and palign_impl<Offset,Packet1cd>::run leaves first unchanged for every
\* Offset (second is a const reference: no action changes b or mem).
C15_AlignRotate ==
  /\ op = "palign0_2cf" => r = a
  /\ op = "palign1_2cf" => r = SubSeq(a, 9, 16) \o SubSeq(b, 1, 8)
  /\ op \in {"palign0_1cd", "palign1_1cd"} => r = Packet1cd(mem[0])
\* The same in the big-endian build alone.
C15_AlignRotate_BigEndian == bigEndian => C15_AlignRotate
\* Everything but the wide Offset 1, in both builds.
C15_AlignRotate_Identity == op # "palign1_2cf" => C15_AlignRotate

\* C16: on wide packets conj_helper<false,true>.pmul(a, b) is lane-wise
\* a*conj(b), conj_helper<true,false>.pmul(a, b) is conj(a)*b,
\* conj_helper<true,true>.pmul(a, b) is conj(a*b) = conj(a)*conj(b), and each
\* variant's pmadd(a, b, c) is its pmul(a, b) plus c (finite operands).
ConjRef(tag, x, y) ==
  IF tag = "ft" THEN CMul(x, CConj(y))
  ELSE IF tag = "tf" THEN CMul(CConj(x), y)
  ELSE CConj(CMul(x, y))
FiniteMem == \A k \in Lanes01 : mem[k][1].k = "fin" /\ mem[k][2].k = "fin"
C16_ConjHelpers ==
  \A tag \in {"ft", "tf", "tt"} : \A k \in Lanes01 :
    /\ op = "conj_pmul_" \o tag => CNumEq(Cplx2cf(r, k), ConjRef(tag, A2cf(k), B2cf(k)))
    /\ op = "conj_pmul_tt" => CNumEq(Cplx2cf(r, k), CMul(CConj(A2cf(k)), CConj(B2cf(k))))
    /\ (op = "conj_pmadd_" \o tag /\ FiniteMem) =>
         CNumEq(Cplx2cf(r, k), CAdd(ConjRef(tag, A2cf(k), B2cf(k)), mem[k]))
\* The same in the big-endian build alone.
C16_ConjHelpers_BigEndian == bigEndian => C16_ConjHelpers

\* C17: preduxp<Packet2cf> on vecs[0] = [a0, a1], vecs[1] = [b0, b1] returns
\* [a0 + a1, b0 + b1]: lane i is the horizontal sum of vecs[i].
C17_PairwiseReduce ==
  op = "preduxp_2cf" =>
    /\ CNumEq(Cplx2cf(r, 0), CAdd(A2cf(0), A2cf(1)))
    /\ CNumEq(Cplx2cf(r, 1), CAdd(B2cf(0), B2cf(1)))
\* The same in the big-endian build alone.
C17_PairwiseReduce_BigEndian == bigEndian => C17_PairwiseReduce

\* C18: pset1 of one complex scalar value returns bit-identical packets
\* whether the scalar is stored at a 16-byte-aligned address (aligned load) or
\* at a misaligned one (unaligned load), for both packet types.
C18_BroadcastAlignment ==
  op \in {"pset1_paths_2cf", "pset1_paths_1cd"} => r = aux
\* The same in the big-endian build alone.
C18_BroadcastAlignment_BigEndian == bigEndian => C18_BroadcastAlignment
\* The narrow half alone.
C18_BroadcastAlignment_Narrow == op = "pset1_paths_1cd" => r = aux

\* C19: for every packet x of either width, whatever bit pattern its lanes
\* hold, pconj(pconj(x)) is bit-identical to x.
C19_ConjInvolution ==
  op \in {"pconj_twice_2cf", "pconj_twice_1cd"} => r = aux
\* pconj was applied twice to a narrow packet holding (NaN, +Inf).
C19_ConjInvolution_Witness ==
  /\ op = "pconj_twice_1cd"
  /\ aux = Packet1cd(<<NaN, Inf(0)>>)
  /\ r = aux

AloneGathered(t) == pgather_Packet2cf(Region(HeapInit, t), tstride[t])
AlonePacket(t) == pconj_Packet2cf(AloneGathered(t))
AloneArray(t) == pscatter_Packet2cf(Region(HeapInit, t), AlonePacket(t), tstride[t])
AmbientSpaceDim == IF ambientDim = Dynamic THEN Len(m_min) ELSE ambientDim
RECURSIVE DistanceOver(_, _)
DistanceOver(p, d) ==
  IF d = 0 THEN 0
  ELSE DistanceOver(p, d - 1)
       + (IF p[d] < m_min[d] THEN Sq(m_min[d] - p[d])
          ELSE IF p[d] > m_max[d] THEN Sq(p[d] - m_max[d]) ELSE 0)
C22_BoxDim ==
  /\ boxop = "dim" => bres = AmbientSpaceDim
  /\ boxop = "squaredExteriorDistance" => bres = DistanceOver(barg, AmbientSpaceDim)
\* The same for fixed-size boxes alone.
C22_BoxDim_Fixed == ambientDim # Dynamic => C22_BoxDim

C24_BroadcastSource ==
  op = "pset1_memory_2cf" =>
    /\ SubSeq(a, 9, 16) # SubSeq(b, 1, 8)
    /\ r = aux
    /\ r = SubSeq(a, 1, 8) \o SubSeq(a, 1, 8)
\* The same in the big-endian build alone.
C24_BroadcastSource_BigEndian == bigEndian => C24_BroadcastSource

\* C25: after n calls of reduce and m calls of reducePacket in any order,
\* scalarCount_ = n and packetCount_ = m, and finalizeBoth(saccum, vaccum)
\* returns the sum of all n scalars and m * size packet lanes divided by
\* n + m * size.
C25_MeanReducer ==
  /\ scalarCount_ = reduced.n
  /\ packetCount_ = reduced.m
  /\ (mop = "finalizeBoth" /\ reduced.n + reduced.m > 0) =>
       NumEq(mres, FDiv(reduced.sum, FromInt(reduced.n + reduced.m * unpacket_traits_size)))
\* The two counters, and the mean when no packet was reduced.
C25_MeanReducer_Counts ==
  /\ scalarCount_ = reduced.n
  /\ packetCount_ = reduced.m
  /\ (mop = "finalizeBoth" /\ reduced.n > 0 /\ reduced.m = 0) =>
       NumEq(mres, FDiv(reduced.sum, FromInt(reduced.n)))

\* The storages constructed and not destroyed, the holders of a buffer, and
\* the capacity behind a pointer.
Live == {s \in Storages : storages[s].live}
Holders(id) == {s \in Live : storages[s].m_data = id}
Capacity(ptr) == IF ptr = 0 THEN 0 ELSE buffers[ptr].cap
BufferOwnership ==
  /\ \A id \in DOMAIN buffers :
       /\ buffers[id].frees <= 1
       /\ buffers[id].frees = 0 <=> Cardinality(Holders(id)) = 1
       /\ buffers[id].frees = 1 => Holders(id) = {}
  /\ \A s \in Live :
       /\ storages[s].m_data \in {0} \cup DOMAIN buffers
       /\ Capacity(storages[s].m_data) = array_prod(storages[s].m_dimensions)
C26_StorageOwnership_Realloc ==
  /\ BufferOwnership
  /\ (sop.f = "resize" /\ sop.realloc /\ array_prod(storages[sop.this].m_dimensions) = 0) =>
       storages[sop.this].m_data = 0

=============================================================================
